---- MODULE Spec2Model ----
(***************************************************************************)
(* PayPoint POS (Burton.Downer_POS_Program_ITT103_SP2025.py): the cart /   *)
(* inventory engine (Cart.add_item, Cart.remove_item, pricing) and the     *)
(* interactive controller around it (POS.run, new_sale, checkout).         *)
(*                                                                         *)
(* Money is counted in cents.  Every catalogue price is a whole number of  *)
(* dollars, so subtotal * 0.10 and subtotal * 0.05 are whole numbers of    *)
(* cents and the integer arithmetic below is exact.                        *)
(*                                                                         *)
(* The program blocks only in input(); an action is everything the program *)
(* does from one menu prompt to the next, with the answers to the prompts  *)
(* it asks on the way as the action's inputs.                              *)
(***************************************************************************)
EXTENDS Integers, Sequences, FiniteSets, TLC

\* ------------------------------------------------------------------------
\* Bounds of the model
\* ------------------------------------------------------------------------
\* largest quantity typed at a quantity prompt
MaxQty == 3
\* the most negative quantity typed at the "quantity to remove" prompt is
\* -MaxNeg, and removals are explored while every stock stays >= -MaxNeg
MaxNeg == 1
\* depth of new_sale() calls made from inside remove_item_fr_cart()
MaxNest == 1
\* number of Cart calls in a run of the scenario of product 101
MaxScenarioSteps == 3
\* number of Cart calls in a run of the cart driven over three products
MaxLineSteps == 4
\* units of goods sold in committed sales over one run of the program
MaxSold == 1

\* ------------------------------------------------------------------------
\* Program data: the part of the catalogue and of the user table modelled
\* ------------------------------------------------------------------------
Products == {40, 45}

\* what can be typed at a product id prompt; 999 is in no catalogue entry
\* (inventory.get returns None)
ProductIds == Products \cup {999}

InitStock == (40 :> 8) @@ (45 :> 5)

Price == (40 :> 50000) @@ (45 :> 40000)

CategoryLower == (40 :> "general") @@ (45 :> "general")

NoUser == "None"

Users == {"admin", "dburton"}

Password == ("admin" :> "admin123") @@ ("dburton" :> "chiching")

Role == ("admin" :> "admin") @@ ("dburton" :> "cashier")

\* what can be typed at a username / password prompt
UserInputs == Users \cup {"nobody"}

PasswordInputs == {"admin123", "chiching", "wrong"}

LoginAttempts == 3

LowStockThreshold == 5

DiscountThreshold == 500000

DiscountPercent == 5

TaxPercent == 10

\* search strings: blank, a whole category tag, a string matching nothing
Queries == {"", "general", "zzz"}

\* ------------------------------------------------------------------------
\* User.has_permission
\* ------------------------------------------------------------------------
has_permission(user, required_role) == Role[user] = required_role

\* user and user.password == password
Authenticates(username, password) ==
    username \in Users /\ Password[username] = password

\* ------------------------------------------------------------------------
\* Cart lines: cart.items is a sequence of [pid, qty]; the product object
\* of a line is the catalogue's own object, so its stock is stock[pid].
\* ------------------------------------------------------------------------
Event(sig, pid, val, lineqty) ==
    [sig |-> sig, pid |-> pid, val |-> val, lineqty |-> lineqty]

\* check_low_stock as it would be with a strict threshold
check_low_stock_strict(pid, stockNow, lineqty) ==
    IF stockNow < LowStockThreshold
    THEN << Event("low_stock", pid, stockNow, lineqty) >>
    ELSE << >>

\* Cart.check_low_stock: the alert carries the stock it reads
check_low_stock(pid, stockNow, lineqty) ==
    IF stockNow <= LowStockThreshold
    THEN << Event("low_stock", pid, stockNow, lineqty) >>
    ELSE << >>

\* the search for the product's line as it would be if it never matched
HasLine_never(items, pid) == FALSE

\* the loop of add_item finds a line of the product (lines 85-86)
HasLine(items, pid) == \E i \in 1..Len(items) : items[i].pid = pid

\* the first line of the product (the one the for loop of add_item meets)
LineIdx(items, pid) ==
    CHOOSE i \in 1..Len(items) :
        /\ items[i].pid = pid
        /\ \A j \in 1..(i-1) : items[j].pid # pid

RECURSIVE QtyOf(_, _)
QtyOf(items, pid) ==
    IF items = << >> THEN 0
    ELSE (IF Head(items).pid = pid THEN Head(items).qty ELSE 0)
         + QtyOf(Tail(items), pid)

DeleteAt(s, i) == SubSeq(s, 1, i-1) \o SubSeq(s, i+1, Len(s))

Outcome(ok, stk, items, out) ==
    [ok |-> ok, stock |-> stk, items |-> items, out |-> out]

\* add_item as it would be if a new line did not reserve its stock
add_item_unreserved(stk, items, p, q) ==
    IF q <= 0
    THEN Outcome(FALSE, stk, items, << Event("invalid_quantity", p, q, 0) >>)
    ELSE IF HasLine(items, p)
    THEN LET i == LineIdx(items, p)
             e == items[i].qty
         IN  IF e + q > stk[p]
             THEN Outcome(FALSE, stk, items,
                          << Event("insufficient", p, stk[p] - e, e) >>)
             ELSE Outcome(TRUE,
                          [stk EXCEPT ![p] = @ - q],
                          [items EXCEPT ![i].qty = e + q],
                          check_low_stock(p, stk[p], e + q)
                            \o check_low_stock(p, stk[p] - q, e + q))
    ELSE IF q > stk[p]
    THEN Outcome(FALSE, stk, items, << Event("insufficient", p, stk[p], 0) >>)
    ELSE Outcome(TRUE,
                 stk,
                 Append(items, [pid |-> p, qty |-> q]),
                 check_low_stock(p, stk[p], q))

\* add_item as it would be if the line were updated before the stock check
add_item_eager(stk, items, p, q) ==
    IF q <= 0
    THEN Outcome(FALSE, stk, items, << Event("invalid_quantity", p, q, 0) >>)
    ELSE IF HasLine(items, p)
    THEN LET i == LineIdx(items, p)
             e == items[i].qty
         IN  IF e + q > stk[p]
             THEN Outcome(FALSE, stk, [items EXCEPT ![i].qty = e + q],
                          << Event("insufficient", p, stk[p] - e, e) >>)
             ELSE Outcome(TRUE,
                          [stk EXCEPT ![p] = @ - q],
                          [items EXCEPT ![i].qty = e + q],
                          check_low_stock(p, stk[p], e + q)
                            \o check_low_stock(p, stk[p] - q, e + q))
    ELSE IF q > stk[p]
    THEN Outcome(FALSE, stk, items, << Event("insufficient", p, stk[p], 0) >>)
    ELSE Outcome(TRUE,
                 [stk EXCEPT ![p] = @ - q],
                 Append(items, [pid |-> p, qty |-> q]),
                 check_low_stock(p, stk[p] - q, q))

\* Cart.add_item(product, quantity), quantity an integer
add_item(stk, items, p, q) ==
    IF q <= 0
    THEN Outcome(FALSE, stk, items, << Event("invalid_quantity", p, q, 0) >>)
    ELSE IF HasLine(items, p)
    THEN LET i == LineIdx(items, p)
             e == items[i].qty
         IN  IF e + q > stk[p]
             THEN Outcome(FALSE, stk, items,
                          << Event("insufficient", p, stk[p] - e, e) >>)
             ELSE Outcome(TRUE,
                          [stk EXCEPT ![p] = @ - q],
                          [items EXCEPT ![i].qty = e + q],
                          check_low_stock(p, stk[p], e + q)
                            \o check_low_stock(p, stk[p] - q, e + q))
    ELSE IF q > stk[p]
    THEN Outcome(FALSE, stk, items, << Event("insufficient", p, stk[p], 0) >>)
    ELSE Outcome(TRUE,
                 [stk EXCEPT ![p] = @ - q],
                 Append(items, [pid |-> p, qty |-> q]),
                 check_low_stock(p, stk[p] - q, q))

\* the loop of remove_item as it would be if it did not return the stock
RECURSIVE remove_scan_no_restock(_, _, _, _, _)
remove_scan_no_restock(k, n, st, pid, q) ==
    IF k > n THEN st
    ELSE LET i    == k - st.del
             line == st.items[i]
         IN  IF line.pid # pid
             THEN remove_scan_no_restock(k + 1, n, st, pid, q)
             ELSE IF q > line.qty
             THEN [st EXCEPT !.failed = TRUE,
                             !.out = @ \o << Event("excess_removal", pid,
                                                  line.qty, line.qty) >>]
             ELSE LET stockNow == st.stock[pid]
                      qtyNow   == line.qty - q
                      gone     == qtyNow = 0
                  IN  remove_scan_no_restock(k + 1, n,
                        [stock   |-> st.stock,
                         items   |-> IF gone THEN DeleteAt(st.items, i)
                                     ELSE [st.items EXCEPT ![i].qty = qtyNow],
                         out     |-> st.out
                                     \o check_low_stock(pid, stockNow, line.qty)
                                     \o check_low_stock(pid, stockNow, qtyNow),
                         removed |-> TRUE,
                         failed  |-> FALSE,
                         del     |-> st.del + (IF gone THEN 1 ELSE 0)],
                        pid, q)

\* the loop of remove_item as it would be if a line of quantity 0 stayed
RECURSIVE remove_scan_keeps_zero(_, _, _, _, _)
remove_scan_keeps_zero(k, n, st, pid, q) ==
    IF k > n THEN st
    ELSE LET i    == k - st.del
             line == st.items[i]
         IN  IF line.pid # pid
             THEN remove_scan_keeps_zero(k + 1, n, st, pid, q)
             ELSE IF q > line.qty
             THEN [st EXCEPT !.failed = TRUE,
                             !.out = @ \o << Event("excess_removal", pid,
                                                  line.qty, line.qty) >>]
             ELSE LET stockNow == st.stock[pid] + q
                      qtyNow   == line.qty - q
                  IN  remove_scan_keeps_zero(k + 1, n,
                        [stock   |-> [st.stock EXCEPT ![pid] = stockNow],
                         items   |-> [st.items EXCEPT ![i].qty = qtyNow],
                         out     |-> st.out
                                     \o check_low_stock(pid, stockNow, line.qty)
                                     \o check_low_stock(pid, stockNow, qtyNow),
                         removed |-> TRUE,
                         failed  |-> FALSE,
                         del     |-> st.del],
                        pid, q)

\* Cart.remove_item: the for loop over list(self.items).  k walks the copy,
\* st.del counts the lines already deleted from the live list, so the k-th
\* line of the copy is line k - st.del of the live list.
RECURSIVE remove_scan(_, _, _, _, _)
remove_scan(k, n, st, pid, q) ==
    IF k > n THEN st
    ELSE LET i    == k - st.del
             line == st.items[i]
         IN  IF line.pid # pid THEN remove_scan(k + 1, n, st, pid, q)
             ELSE IF q > line.qty
             THEN [st EXCEPT !.failed = TRUE,
                             !.out = @ \o << Event("excess_removal", pid,
                                                  line.qty, line.qty) >>]
             ELSE LET stockNow == st.stock[pid] + q
                      qtyNow   == line.qty - q
                      gone     == qtyNow = 0
                  IN  remove_scan(k + 1, n,
                        [stock   |-> [st.stock EXCEPT ![pid] = stockNow],
                         items   |-> IF gone THEN DeleteAt(st.items, i)
                                     ELSE [st.items EXCEPT ![i].qty = qtyNow],
                         out     |-> st.out
                                     \o check_low_stock(pid, stockNow, line.qty)
                                     \o check_low_stock(pid, stockNow, qtyNow),
                         removed |-> TRUE,
                         failed  |-> FALSE,
                         del     |-> st.del + (IF gone THEN 1 ELSE 0)],
                        pid, q)

\* Cart.remove_item(product_id, quantity), quantity any integer
remove_item(stk, items, pid, q) ==
    LET st == remove_scan(1, Len(items),
                          [stock |-> stk, items |-> items, out |-> << >>,
                           removed |-> FALSE, failed |-> FALSE, del |-> 0],
                          pid, q)
    IN  IF st.failed THEN Outcome(FALSE, st.stock, st.items, st.out)
        ELSE IF ~st.removed
        THEN Outcome(FALSE, st.stock, st.items,
                     st.out \o << Event("not_found", 0, 0, 0) >>)
        ELSE Outcome(TRUE, st.stock, st.items, st.out)

\* Cart.is_empty
is_empty(items) == items = << >>

\* ------------------------------------------------------------------------
\* Pricing
\* ------------------------------------------------------------------------
\* CartItem.total_price
total_price(line) == Price[line.pid] * line.qty

\* Cart.calculate_subtotal
RECURSIVE calculate_subtotal(_)
calculate_subtotal(items) ==
    IF items = << >> THEN 0
    ELSE total_price(Head(items)) + calculate_subtotal(Tail(items))

\* Discount.apply_discount: subtotal * 0.05
apply_discount(subtotal) == (subtotal * DiscountPercent) \div 100

\* `self.discount == 0` for the Discount object the cart holds: an object
\* without __eq__ is not equal to 0, so the comparison is False ...
DiscountObjectIsZero == FALSE

\* ... and Python arithmetic reads a bool as 0 or 1 (dollars; 100 cents)
PyBoolAsMoney(b) == IF b THEN 100 ELSE 0

\* discount_amount as it would be with a strict threshold
discount_amount_strict(subtotal) ==
    IF subtotal > DiscountThreshold
    THEN apply_discount(subtotal)
    ELSE PyBoolAsMoney(DiscountObjectIsZero)

\* Cart.discount_amount
discount_amount(subtotal) ==
    IF subtotal >= DiscountThreshold
    THEN apply_discount(subtotal)
    ELSE PyBoolAsMoney(DiscountObjectIsZero)

\* subtotal * tax_rate, the rate in percent
tax_at(subtotal, tax_rate) == (subtotal * tax_rate) \div 100

\* subtotal * tax_rate with tax_rate = 0.10, the default of POS.__init__
tax_of(subtotal) == tax_at(subtotal, TaxPercent)

Pricing(subtotal, tax, discount, total) ==
    [subtotal |-> subtotal, tax |-> tax, discount |-> discount, total |-> total]

NoPricing == Pricing(0, 0, 0, 0)

\* POS.recalculate_total of a POS constructed with tax_rate
recalculate_total_at(items, tax_rate) ==
    LET subtotal == calculate_subtotal(items)
        tax      == tax_at(subtotal, tax_rate)
        discount == discount_amount(subtotal)
        total    == (subtotal + tax) - discount
    IN  Pricing(subtotal, tax, discount, total)

\* POS.recalculate_total
recalculate_total(items) == recalculate_total_at(items, TaxPercent)

\* the top of the payment loop of POS.checkout (lines 453-456) of a POS
\* constructed with tax_rate
payment_summary_at(items, tax_rate) ==
    LET subtotal == calculate_subtotal(items)
        tax      == tax_at(subtotal, tax_rate)
        discount == discount_amount(subtotal)
        total    == (subtotal + tax) - discount
    IN  Pricing(subtotal, tax, discount, total)

\* the top of the payment loop of POS.checkout (lines 453-456)
payment_summary(items) == payment_summary_at(items, TaxPercent)

\* display_receipt as it would be if the tax were charged on the
\* discounted subtotal
display_receipt_taxed_net(items, tax_rate) ==
    LET subtotal == calculate_subtotal(items)
        discount == discount_amount(subtotal)
        tax      == tax_at(subtotal - discount, tax_rate)
        total    == (subtotal + tax) - discount
    IN  Pricing(subtotal, tax, discount, total)

\* Cart.display_receipt(tax_rate) (lines 157-160, 167)
display_receipt_at(items, tax_rate) ==
    LET subtotal == calculate_subtotal(items)
        tax      == tax_at(subtotal, tax_rate)
        discount == discount_amount(subtotal)
        total    == (subtotal + tax) - discount
    IN  Pricing(subtotal, tax, discount, total)

\* POS.search_products for the queries of Queries: a blank query is a
\* substring of every category; a whole tag matches the products of that
\* category; "zzz" is in no name and no category.
search_products(query) ==
    { p \in Products : query = "" \/ query = CategoryLower[p] }

\* cancel_sale as it would be if it returned one unit per line
RECURSIVE restock_one_each(_, _)
restock_one_each(stk, items) ==
    IF items = << >> THEN stk
    ELSE restock_one_each([stk EXCEPT ![Head(items).pid] = @ + 1],
                          Tail(items))

\* POS.cancel_sale, the restocking loop: item.product.stock += item.quantity
RECURSIVE restock(_, _)
restock(stk, items) ==
    IF items = << >> THEN stk
    ELSE restock([stk EXCEPT ![Head(items).pid] = @ + Head(items).qty],
                 Tail(items))

\* ------------------------------------------------------------------------
\* State
\* ------------------------------------------------------------------------
VARIABLES
    stock,         \* Product.stock of every catalogue entry
    cart,          \* self.cart.items
    current_user,  \* self.current_user (a username, or NoUser for None)
    stack,         \* the call stack: one frame per function waiting at a prompt
    startStock,    \* history: stock when the cart was last opened or cleared
    committed,     \* history: units of every product on the receipts printed
    last           \* history: what the latest step did

vars == << stock, cart, current_user, stack, startStock, committed, last >>

\* A frame: k is the prompt the function waits at
\*   "login"  POS.login            n = attempts left, ctx = "start" | "relogin"
\*   "main"   POS.run              the main menu
\*   "sale"   POS.new_sale         the transaction menu
\*   "pay"    POS.checkout         "Enter payment amount", due = the summary
\*   "short"  POS.checkout         the shortfall menu, due = the summary
\*   "rm"     POS.remove_item_fr_cart, suspended in its call of new_sale();
\*            ctx = the call site, orig = original_user of that call site
\*   "exit"   run() has returned;  "crash"  an uncaught exception ended run()
Frame(k, ctx, orig, n, due) ==
    [k |-> k, ctx |-> ctx, orig |-> orig, n |-> n, due |-> due]

PlainFrame(k) == Frame(k, "", NoUser, 0, NoPricing)

Top == stack[Len(stack)]

Pop(s) == SubSeq(s, 1, Len(s) - 1)

ReplaceTop(s, f) == Append(Pop(s), f)

At(k) == stack # << >> /\ Top.k = k

\* number of remove_item_fr_cart calls suspended on the stack
Nest(s) == Cardinality({ i \in 1..Len(s) : s[i].k = "rm" })

NoPay == [total |-> 0, tendered |-> 0, change |-> 0]

\* op: the operation ("refused": a handler gave up before it called the
\* cart; "show": it only displayed something); ok: its result; ret: what
\* checkout() returned in this step ("none" when it did not return, "raised"
\* for an uncaught exception); pid: the product of a successful
\* Cart.add_item / Cart.remove_item; qty: the quantity of a successful
\* Cart.add_item, and the number of units a confirmed cancellation found in
\* the cart; out: the kinds of the messages Cart.add_item / Cart.remove_item
\* printed; rt: a successful remove_item(p, q) that came right after a
\* successful add_item(p, q); pay: the payment; price: the pricing the step
\* computed; by: self.current_user at the moment Cart.remove_item was called.
Last(op, pid, qty, ok, ret, out) ==
    [op |-> op, pid |-> pid, qty |-> qty, ok |-> ok, ret |-> ret, out |-> out,
     rt |-> FALSE, pay |-> NoPay, price |-> NoPricing, by |-> NoUser]

\* the kinds of a sequence of messages
Signals(out) == [i \in 1..Len(out) |-> out[i].sig]

Priced(l, price) == [l EXCEPT !.price = price]

Did(op) == Last(op, 0, 0, TRUE, "none", << >>)

Failed(op) == Last(op, 0, 0, FALSE, "none", << >>)

Init ==
    /\ stock = InitStock
    /\ cart = << >>
    /\ current_user = NoUser
    /\ stack = << Frame("login", "start", NoUser, LoginAttempts, NoPricing) >>
    /\ startStock = InitStock
    /\ committed = [p \in Products |-> 0]
    /\ last = Did("init")

\* ------------------------------------------------------------------------
\* Returning up the call stack
\* ------------------------------------------------------------------------
\* the payment prompt as it would be if a checkout computed its summary
\* once and kept it over the passes of its loop
PayFrame_stale(items) ==
    IF At("short") THEN [Top EXCEPT !.k = "pay"]
    ELSE Frame("pay", "", NoUser, 0, payment_summary(items))

\* the payment prompt of one pass of the loop of checkout (lines 451-466)
PayFrame(items) == Frame("pay", "", NoUser, 0, payment_summary(items))

\* new_sale() returns; s is the stack below its frame, items the cart then
NewSaleReturn(s, user, items) ==
    LET caller == s[Len(s)]
    IN  IF caller.k = "rm"
        THEN \* line 405 returned; remove_item_fr_cart returns True (line 414)
             IF caller.ctx = "sale"
             THEN [stack |-> Pop(s), user |-> user]
             ELSE \* lines 484-487 / 494-496: removed is True, break, and the
                  \* payment loop starts over
                  [stack |-> ReplaceTop(Pop(s), PayFrame(items)),
                   user  |-> IF caller.ctx = "short_override"
                             THEN caller.orig ELSE user]
        ELSE [stack |-> s, user |-> user]

\* checkout() returns v; s is the stack below its frame
CheckoutReturn(s, v, user, items) ==
    LET caller == s[Len(s)]
    IN  IF caller.k = "sale" /\ v
        THEN NewSaleReturn(Pop(s), user, items)
        ELSE [stack |-> s, user |-> user]

\* ------------------------------------------------------------------------
\* Inputs
\* ------------------------------------------------------------------------
\* an integer typed at "Enter quantity"
AddQtyInputs == 0..MaxQty

\* an integer typed at "Enter quantity to remove"
RemoveQtyInputs == (0 - MaxNeg)..MaxQty

\* a payment, as cents above the total due
PayOffsets == {0 - 100, 0, 100}

\* ------------------------------------------------------------------------
\* Steps
\* ------------------------------------------------------------------------
\* a step that prints a receipt for the lines of receipt
StepSold(stk, items, user, st, start, l, receipt) ==
    /\ stock' = stk
    /\ cart' = items
    /\ current_user' = user
    /\ stack' = st
    /\ startStock' = start
    /\ committed' = [p \in DOMAIN committed |->
                       committed[p] + QtyOf(receipt, p)]
    /\ last' = l

Step(stk, items, user, st, start, l) ==
    StepSold(stk, items, user, st, start, l, << >>)

\* the step only prints
Show(l) == Step(stock, cart, current_user, stack, startStock, l)

\* an exception no handler catches ends run()
Raise(l) ==
    Step(stock, cart, current_user, << PlainFrame("crash") >>, startStock,
         [l EXCEPT !.ok = FALSE, !.ret = "raised"])

\* self.cart.display_receipt(self.tax_rate) (line 424)
display_receipt(items) == display_receipt_at(items, TaxPercent)

\* POS.view_cart
view_cart ==
    IF is_empty(cart) THEN Show(Did("show"))
    ELSE Show(Priced(Did("show"), display_receipt(cart)))

\* POS.login, one pass of its loop
LoginAttempt ==
    /\ At("login")
    /\ \E u \in UserInputs, pw \in PasswordInputs :
         LET relogin == Top.ctx = "relogin"
         IN  IF Authenticates(u, pw)
             THEN IF relogin
                  THEN Step(stock, cart, u, Pop(stack), startStock,
                            Did("login"))
                  ELSE \* run(): self.cart = Cart(), then the main menu
                       Step(stock, << >>, u, << PlainFrame("main") >>, stock,
                            Did("login"))
             ELSE IF Top.n - 1 > 0
             THEN Step(stock, cart, current_user,
                       ReplaceTop(stack, [Top EXCEPT !.n = @ - 1]),
                       startStock, Failed("login"))
             ELSE IF relogin
             THEN \* run(): "Logged Out.", break, self.cart = Cart()
                  Step(stock, << >>, current_user, Pop(stack), stock,
                       Failed("login_exhausted"))
             ELSE Step(stock, cart, current_user, << PlainFrame("exit") >>,
                       startStock, Failed("login_exhausted"))

\* ---- POS.run, the main menu ----
\* choice 1: new_sale() opens a new cart and shows the transaction menu
MainNewSale ==
    /\ At("main")
    /\ Step(stock, << >>, current_user, Append(stack, PlainFrame("sale")),
            stock, Did("new_sale"))

\* choice 2
MainViewCart == At("main") /\ view_cart

\* checkout as it would be without its test for an empty cart
BeginCheckout_unguarded ==
    Step(stock, cart, current_user, Append(stack, PayFrame(cart)),
         startStock, Priced(Did("checkout"), payment_summary(cart)))

\* POS.checkout up to its first prompt
BeginCheckout ==
    IF is_empty(cart)
    THEN Show(Last("checkout", 0, 0, FALSE, "False", << >>))
    ELSE Step(stock, cart, current_user, Append(stack, PayFrame(cart)),
              startStock, Priced(Did("checkout"), payment_summary(cart)))

\* choice 3: the value of checkout() is dropped
MainCheckout == At("main") /\ BeginCheckout

\* choice 4: POS.show_inventory prints
MainShowInventory == At("main") /\ Show(Did("show"))

\* choice 5: self.current_user = None, then login()
MainLogout ==
    /\ At("main")
    /\ Step(stock, cart, NoUser,
            Append(stack,
                   Frame("login", "relogin", NoUser, LoginAttempts, NoPricing)),
            startStock, Did("logout"))

\* choice 6
MainExit ==
    /\ At("main")
    /\ Step(stock, cart, current_user, << PlainFrame("exit") >>, startStock,
            Did("exit"))

\* any other choice
MainInvalid == At("main") /\ Show(Did("show"))

\* ---- POS.new_sale, the transaction menu ----
\* choice 1: POS.add_item_to_cart
SaleAdd ==
    /\ At("sale")
    /\ \/ \* a search that finds nothing
          /\ \E query \in Queries :
                query # "" /\ search_products(query) = {}
          /\ Show(Failed("refused"))
       \/ \* a blank query, or a search with results; int() raises ValueError
          /\ \E query \in Queries :
                query = "" \/ search_products(query) # {}
          /\ Show(Failed("refused"))
       \/ /\ \E query \in Queries :
                query = "" \/ search_products(query) # {}
          /\ \E pid \in ProductIds :
                IF pid \notin Products
                THEN Show(Failed("refused"))
                ELSE \E q \in AddQtyInputs :
                       IF q <= 0
                       THEN Show(Failed("refused"))
                       ELSE LET r == add_item(stock, cart, pid, q)
                            IN  Step(r.stock, r.items, current_user, stack,
                                     startStock,
                                     IF r.ok
                                     THEN Last("add_item", pid, q, TRUE,
                                               "none", Signals(r.out))
                                     ELSE Last("add_item", 0, 0, FALSE,
                                               "none", Signals(r.out)))

RECURSIVE Units(_)
Units(items) ==
    IF items = << >> THEN 0 ELSE Head(items).qty + Units(Tail(items))

RECURSIVE SumOver(_, _)
SumOver(f, S) ==
    IF S = {} THEN 0
    ELSE LET x == CHOOSE y \in S : TRUE IN f[x] + SumOver(f, S \ {x})

\* units sold so far
Sold == SumOver([p \in Products |-> InitStock[p] - startStock[p]], Products)

\* the lines of the cart a query matches (lines 382-385)
cart_matches(items, query) ==
    { i \in 1..Len(items) : items[i].pid \in search_products(query) }

RmOutcome(called, ok, nested, stk, items, out) ==
    [called |-> called, ok |-> ok, nested |-> nested, stock |-> stk,
     items |-> items, out |-> out]

\* POS.remove_item_fr_cart up to its return or its call of new_sale().
\* numeric: both int() calls parse their input.  called: Cart.remove_item
\* was called; ok: the value is truthy; nested: the cart became empty and
\* new_sale() is called (line 405).
remove_item_fr_cart(stk, items, query, pid, q, numeric) ==
    IF is_empty(items)
    THEN RmOutcome(FALSE, FALSE, FALSE, stk, items, << >>)
    ELSE IF query # "" /\ cart_matches(items, query) = {}
    THEN RmOutcome(FALSE, FALSE, FALSE, stk, items, << >>)
    ELSE IF ~numeric
    THEN RmOutcome(FALSE, FALSE, FALSE, stk, items, << >>)
    ELSE LET r == remove_item(stk, items, pid, q)
         IN  RmOutcome(TRUE, r.ok, r.ok /\ is_empty(r.items),
                       r.stock, r.items, r.out)

\* what is typed at the prompts of remove_item_fr_cart: a search that
\* finds nothing in the cart; or a blank query (every query that finds a
\* line goes the same way) and then two integers, or something int() refuses.
\* An id outside the catalogue matches no line whatever the quantity, so it
\* is typed with one quantity only.
RemoveInputs ==
    { [query |-> query, pid |-> 0, q |-> 0, numeric |-> TRUE] :
          query \in { x \in Queries : x # "" /\ search_products(x) = {} } }
    \cup { [query |-> "", pid |-> pid, q |-> q, numeric |-> TRUE] :
             pid \in Products, q \in RemoveQtyInputs }
    \cup { [query |-> "", pid |-> pid, q |-> 1, numeric |-> TRUE] :
             pid \in ProductIds \ Products }
    \cup { [query |-> "", pid |-> 0, q |-> 0, numeric |-> FALSE] }

Removal(in) ==
    remove_item_fr_cart(stock, cart, in.query, in.pid, in.q, in.numeric)

\* the bounds of the exploration
WithinBounds(r) ==
    /\ \A p \in Products : r.stock[p] >= 0 - MaxNeg
    /\ r.nested => Nest(stack) < MaxNest

RemovalDone(in, r, ret, by) ==
    IF r.called /\ r.ok
    THEN [Last("remove_item", in.pid, 0, TRUE, ret, Signals(r.out))
          EXCEPT !.by = by,
                 !.rt = /\ last.op = "add_item"
                        /\ last.ok
                        /\ last.pid = in.pid
                        /\ last.qty = in.q,
                 \* lines 407-412: "Updated Cart Total"
                 !.price = IF is_empty(r.items) THEN NoPricing
                           ELSE recalculate_total(r.items)]
    ELSE IF r.called
    THEN [Last("remove_item", 0, 0, FALSE, ret, Signals(r.out))
          EXCEPT !.by = by]
    ELSE Last("refused", 0, 0, FALSE, ret, << >>)

\* remove_item_fr_cart calls new_sale(): a new cart, the transaction menu.
\* A checkout suspended below never reads its summary again (it restarts
\* its payment loop when the call returns), so the summary is dropped.
EnterNestedSale(in, r, ctx, user) ==
    Step(r.stock, << >>, user,
         ReplaceTop(stack, [Top EXCEPT !.due = NoPricing])
           \o << Frame("rm", ctx, current_user, 0, NoPricing),
                 PlainFrame("sale") >>,
         r.stock, RemovalDone(in, r, "none", user))

\* choice 2 as it would be without the test of the role
SaleRemove_ungated ==
    /\ At("sale")
    /\ IF current_user = NoUser
       THEN Raise(Did("remove_denied"))
       ELSE \E in \in RemoveInputs :
              LET r == Removal(in)
              IN  /\ WithinBounds(r)
                  /\ IF r.nested
                     THEN EnterNestedSale(in, r, "sale", current_user)
                     ELSE Step(r.stock, r.items, current_user, stack,
                               startStock,
                               RemovalDone(in, r, "none", current_user))

\* choice 2
SaleRemove ==
    /\ At("sale")
    /\ IF current_user = NoUser
       THEN \* None has no has_permission
            Raise(Did("remove_denied"))
       ELSE IF ~has_permission(current_user, "admin")
       THEN Show(Failed("refused"))
       ELSE \E in \in RemoveInputs :
              LET r == Removal(in)
              IN  /\ WithinBounds(r)
                  /\ IF r.nested
                     THEN EnterNestedSale(in, r, "sale", current_user)
                     ELSE Step(r.stock, r.items, current_user, stack,
                               startStock,
                               RemovalDone(in, r, "none", current_user))

\* choice 3
SaleViewCart == At("sale") /\ view_cart

\* choice 4: `if self.checkout(): return`
SaleCheckout == At("sale") /\ BeginCheckout

\* choice 5: on "yes" cancel_sale() and return
SaleCancel ==
    /\ At("sale")
    /\ \/ Show(Failed("cancel"))
       \/ LET back == restock(stock, cart)
              r    == NewSaleReturn(Pop(stack), current_user, << >>)
          IN  Step(back, << >>, r.user, r.stack, back,
                   Last("cancel", 0, Units(cart), TRUE, "none", << >>))

\* any other choice
SaleInvalid == At("sale") /\ Show(Did("show"))

\* ---- POS.checkout ----
Payment(total, tendered, change) ==
    [total |-> total, tendered |-> tendered, change |-> change]

\* the handler of ValueError as it would be if it gave the checkout up
TenderInvalid_returns ==
    Step(stock, cart, current_user, Pop(stack), startStock,
         [Failed("tender_invalid") EXCEPT !.ret = "False"])

\* float() raises ValueError (lines 514-515): the loop starts over
TenderInvalid ==
    Step(stock, cart, current_user, ReplaceTop(stack, PayFrame(cart)),
         startStock, Priced(Failed("tender_invalid"), payment_summary(cart)))

\* "Enter payment amount": a malformed amount, a short one, or print_receipt
Tender ==
    /\ At("pay")
    /\ \/ TenderInvalid
       \/ \E off \in PayOffsets :
            LET total   == Top.due.total
                payment == total + off
            IN  IF payment < total
                THEN Step(stock, cart, current_user,
                          ReplaceTop(stack, [Top EXCEPT !.k = "short"]),
                          startStock,
                          [Failed("tender") EXCEPT
                             !.price = Top.due,
                             !.pay = Payment(total, payment, 0)])
                ELSE LET l == [Did("tender") EXCEPT
                                 !.ret = "True",
                                 !.price = Top.due,
                                 !.pay = Payment(total, payment,
                                                 payment - total)]
                         r == CheckoutReturn(Pop(stack), TRUE, current_user,
                                             << >>)
                     IN  IF current_user = NoUser
                         THEN \* print_receipt: None has no username
                              Raise(l)
                         ELSE \* print_receipt clears the cart; return True
                              /\ Sold + Units(cart) <= MaxSold
                              /\ StepSold(stock, << >>, r.user, r.stack, stock,
                                          l, cart)

\* shortfall menu, choice 1: break, the payment loop starts over
ShortAddFunds ==
    /\ At("short")
    /\ Step(stock, cart, current_user, ReplaceTop(stack, PayFrame(cart)),
            startStock, Priced(Did("add_funds"), payment_summary(cart)))

\* shortfall menu, choice 2
ShortRemove ==
    /\ At("short")
    /\ IF current_user = NoUser
       THEN Raise(Did("remove_denied"))
       ELSE IF ~has_permission(current_user, "admin")
       THEN \/ \* "Switch to admin?" is not answered yes: continue
               Show(Failed("refused"))
            \/ \E u \in UserInputs, pw \in PasswordInputs :
                 IF ~(Authenticates(u, pw) /\ has_permission(u, "admin"))
                 THEN \* admin_login() is False: continue
                      Show(Failed("refused"))
                 ELSE \* admin_login() set self.current_user
                      \E in \in RemoveInputs :
                        LET r == Removal(in)
                        IN  /\ WithinBounds(r)
                            /\ IF r.nested
                               THEN EnterNestedSale(in, r, "short_override", u)
                               ELSE \* self.current_user = original_user
                                    Step(r.stock, r.items, current_user,
                                         IF r.ok
                                         THEN ReplaceTop(stack,
                                                         PayFrame(r.items))
                                         ELSE stack,
                                         startStock,
                                         RemovalDone(in, r, "none", u))
       ELSE \E in \in RemoveInputs :
              LET r == Removal(in)
              IN  /\ WithinBounds(r)
                  /\ IF r.nested
                     THEN EnterNestedSale(in, r, "short_admin", current_user)
                     ELSE IF r.ok
                     THEN Step(r.stock, r.items, current_user,
                               ReplaceTop(stack, PayFrame(r.items)),
                               startStock,
                               RemovalDone(in, r, "none", current_user))
                     ELSE \* "No items removed": return False
                          Step(r.stock, r.items, current_user, Pop(stack),
                               startStock,
                               RemovalDone(in, r, "False", current_user))

\* shortfall menu, choice 3: on "yes"/"y" cancel_sale() and return True,
\* otherwise return False
ShortCancel ==
    /\ At("short")
    /\ \/ Step(stock, cart, current_user, Pop(stack), startStock,
               Last("cancel", 0, 0, FALSE, "False", << >>))
       \/ LET back == restock(stock, cart)
              r    == CheckoutReturn(Pop(stack), TRUE, current_user, << >>)
          IN  Step(back, << >>, r.user, r.stack, back,
                   Last("cancel", 0, Units(cart), TRUE, "True", << >>))

\* shortfall menu, any other choice, as it would be if it returned True
ShortInvalid_returns_true ==
    /\ At("short")
    /\ LET r == CheckoutReturn(Pop(stack), TRUE, current_user, cart)
       IN  Step(stock, cart, r.user, r.stack, startStock,
                Last("invalid_choice", 0, 0, TRUE, "True", << >>))

\* shortfall menu, any other choice: return False
ShortInvalid ==
    /\ At("short")
    /\ Step(stock, cart, current_user, Pop(stack), startStock,
            Last("invalid_choice", 0, 0, TRUE, "False", << >>))

Next ==
    \/ LoginAttempt
    \/ MainNewSale
    \/ MainViewCart
    \/ MainCheckout
    \/ MainShowInventory
    \/ MainLogout
    \/ MainExit
    \/ MainInvalid
    \/ SaleAdd
    \/ SaleRemove
    \/ SaleViewCart
    \/ SaleCheckout
    \/ SaleCancel
    \/ SaleInvalid
    \/ Tender
    \/ ShortAddFunds
    \/ ShortRemove
    \/ ShortCancel
    \/ ShortInvalid

Spec == Init /\ [][Next]_vars

TypeOK ==
    /\ stock \in [Products -> Int]
    /\ current_user \in Users \cup {NoUser}
    /\ stack # << >>

\* ------------------------------------------------------------------------
\* Pricing on its own: every cart that fresh additions can build from the
\* seed catalogue, and recalculate_total applied to it
\* ------------------------------------------------------------------------
LineChoices(p) == { [pid |-> p, qty |-> n] : n \in 1..InitStock[p] }

PricingCarts ==
    { << >> }
    \cup UNION { { << l >> : l \in LineChoices(p) } : p \in Products }
    \cup UNION { { << l, m >> : l \in LineChoices(pr[1]),
                                m \in LineChoices(pr[2]) } :
                 pr \in { x \in Products \X Products : x[1] # x[2] } }

InitPricing ==
    /\ cart \in PricingCarts
    /\ stock = [p \in Products |-> InitStock[p] - QtyOf(cart, p)]
    /\ current_user = "admin"
    /\ stack = << PlainFrame("main"), PlainFrame("sale") >>
    /\ startStock = InitStock
    /\ committed = [p \in Products |-> 0]
    /\ last = Did("init")

Recalculate ==
    /\ last.op = "init"
    /\ Show(Priced(Did("recalculate_total"), recalculate_total(cart)))

\* tax rates a POS is constructed with, in percent
TaxRates == {0, TaxPercent, 15}

\* the three places that price a cart, asked about the same cart by a POS
\* constructed with tax_rate: view_cart, the summary of checkout, and
\* recalculate_total
CallSites ==
    /\ last.op = "init"
    /\ \E tax_rate \in TaxRates :
         Show(Did("call_sites")
              @@ [tax_rate |-> tax_rate,
                  view     |-> display_receipt_at(cart, tax_rate),
                  summary  |-> payment_summary_at(cart, tax_rate),
                  recalc   |-> recalculate_total_at(cart, tax_rate)])

NextPricing == Recalculate \/ CallSites

SpecPricing == InitPricing /\ [][NextPricing]_vars

\* ------------------------------------------------------------------------
\* Properties
\* ------------------------------------------------------------------------
AddCalled == last.op = "add_item"

RemoveCalled == last.op = "remove_item"

Emitted(sig) == \E i \in 1..Len(last.out) : last.out[i] = sig

\* C1  Stock conservation: for every product, the stock it had when the
\* cart of the running transaction was opened equals its current stock plus
\* the quantities of the cart lines for it, after every add_item and
\* remove_item call (and in every other state).
C1_StockConservation ==
    \A p \in Products : startStock[p] = stock[p] + QtyOf(cart, p)

\* a successful remove_item has just left a cart that still holds lines,
\* after which some stock is still reserved
C1_Witness ==
    /\ RemoveCalled /\ last.ok
    /\ cart # << >>
    /\ \E p \in Products : stock[p] # startStock[p]

\* C2  Product.stock is never negative in any reachable state.
C2_StockNeverNegative == \A p \in Products : stock[p] >= 0

\* C3  Adding q > 0 to a product that already has a line of quantity e
\* fails if and only if q exceeds the product's current stock; otherwise the
\* line becomes e + q and the stock decreases by exactly q.
C3_ExistingLineChecksAvailableStock ==
    \A p \in Products, q \in 1..MaxQty :
        HasLine(cart, p) =>
            LET e == cart[LineIdx(cart, p)].qty
                r == add_item(stock, cart, p, q)
            IN  /\ ~r.ok <=> q > stock[p]
                /\ r.ok => /\ QtyOf(r.items, p) = e + q
                           /\ r.stock[p] = stock[p] - q

\* C4  Atomicity of failure: in every reachable state, an add_item call
\* (any product, any integer quantity) that fails and a remove_item call
\* (any id, any integer quantity) that fails return with every stock and
\* the sequence of cart lines as they were; and the failing calls the
\* program makes leave them so.
FailingCallsChangeNothing ==
    /\ \A p \in Products, q \in (0 - MaxNeg)..MaxQty :
          LET r == add_item(stock, cart, p, q)
          IN  ~r.ok => r.stock = stock /\ r.items = cart
    /\ \A pid \in ProductIds, q \in RemoveQtyInputs :
          LET r == remove_item(stock, cart, pid, q)
          IN  ~r.ok => r.stock = stock /\ r.items = cart

C4_FailureIsAtomic ==
    /\ []FailingCallsChangeNothing
    /\ [][ (last'.op \in {"add_item", "remove_item"} /\ ~last'.ok)
           => stock' = stock /\ cart' = cart ]_vars

\* a remove_item call has just been refused for asking more than the line
\* holds, with lines in the cart
C4_Witness ==
    /\ RemoveCalled /\ ~last.ok
    /\ Emitted("excess_removal")
    /\ cart # << >>

\* C5  Round trip: in every reachable state, for every product p and
\* quantity q, if add_item(p, q) succeeds then remove_item(p.id, q) right
\* after it succeeds and gives back the stock and the cart lines of before
\* the add; a product without a line before has none afterwards.
C5_RoundTrip ==
    \A p \in Products, q \in 1..MaxQty :
        LET a == add_item(stock, cart, p, q)
            r == remove_item(a.stock, a.items, p, q)
        IN  a.ok => /\ r.ok
                    /\ r.stock = stock
                    /\ r.items = cart
                    /\ ~HasLine(cart, p) => ~HasLine(r.items, p)

\* the program has just run remove_item(p, q) right after a successful
\* add_item(p, q), and the line the add created is gone
C5_Witness ==
    /\ RemoveCalled /\ last.ok /\ last.rt
    /\ ~HasLine(cart, last.pid)

\* C6  Every cart line has quantity > 0 in every reachable state.
C6_LinesPositive == \A i \in 1..Len(cart) : cart[i].qty > 0

\* a remove_item has just taken a whole line out while another line stays
C6_Witness ==
    /\ RemoveCalled /\ last.ok
    /\ ~HasLine(cart, last.pid)
    /\ cart # << >>

\* C7  Checkout commit: a payment >= the current total makes checkout
\* return True with change = payment - total >= 0, an empty cart and no
\* change of any stock.
C7_CommitOnSufficientPayment ==
    [][ ( /\ At("pay")
          /\ last'.op = "tender"
          /\ last'.pay.tendered >= payment_summary(cart).total )
        => /\ last'.ret = "True"
           /\ last'.pay.change = last'.pay.tendered - payment_summary(cart).total
           /\ last'.pay.change >= 0
           /\ cart' = << >>
           /\ stock' = stock ]_vars

\* C8  Checkout cancel: a confirmed cancellation adds every line's
\* quantity back to its product's stock and empties the cart, so that every
\* stock is what it was when the cart was opened; an unconfirmed one changes
\* neither stock nor cart.
C8_CancelRestores ==
    [][ last'.op = "cancel"
        => IF last'.ok
           THEN /\ \A p \in Products : stock'[p] = stock[p] + QtyOf(cart, p)
                /\ cart' = << >>
                /\ stock' = startStock
           ELSE stock' = stock /\ cart' = cart ]_vars

\* a cancellation confirmed at the shortfall menu has just returned a cart
\* of several units
C8_Witness ==
    /\ last.op = "cancel" /\ last.ok /\ last.ret = "True"
    /\ last.qty > 1
    /\ cart = << >>

\* C9  A checkout request on a cart without lines returns False at once:
\* no payment state is entered, and cart, stock and principal are unchanged.
C9_EmptyCartCheckoutFails ==
    [][ (is_empty(cart) /\ last'.op = "checkout")
        => /\ last'.ret = "False"
           /\ stack' = stack
           /\ stock' = stock
           /\ cart' = cart
           /\ current_user' = current_user ]_vars

\* checkout has just been refused at the transaction menu
C9_Witness ==
    /\ last.op = "checkout" /\ last.ret = "False"
    /\ At("sale") /\ is_empty(cart)

\* C10 Pricing determinism: with S the sum of quantity * price over the
\* lines, discount is 0 below 5000.00 and 5% of S from 5000.00 on, tax is
\* 10% of S, total is S + tax - discount; S = 6000.00 gives 600.00, 300.00
\* and 6300.00.
C10_PricingDeterminism ==
    last.op = "recalculate_total" =>
        LET S == SumOver([p \in Products |-> Price[p] * QtyOf(cart, p)],
                         Products)
        IN  /\ last.price.subtotal = S
            /\ S < 500000 => last.price.discount = 0
            /\ S >= 500000 => last.price.discount * 100 = 5 * S
            /\ last.price.tax * 100 = 10 * S
            /\ last.price.total = S + last.price.tax - last.price.discount
            /\ S = 600000 => /\ last.price.tax = 60000
                             /\ last.price.discount = 30000
                             /\ last.price.total = 630000

\* the totals of a cart of exactly 5000.00 have been computed
C10_Witness ==
    /\ last.op = "recalculate_total"
    /\ last.price.subtotal = 500000
    /\ last.price.discount = 25000

\* C11  Shortfall branch: whenever Cart.remove_item is called from the
\* shortfall menu (by a privileged principal, or after the admin-override
\* login), a successful removal goes back to payment entry with the summary
\* computed from the cart as it is then, and a failed removal makes
\* checkout return False to its caller with stock and cart unchanged.
C11_ShortfallRemoval ==
    [][ (At("short") /\ last'.op = "remove_item")
        => IF last'.ok
           THEN /\ stack'[Len(stack')].k = "pay"
                /\ stack'[Len(stack')].due = payment_summary(cart')
           ELSE /\ last'.ret = "False"
                /\ stack' = Pop(stack)
                /\ stock' = stock
                /\ cart' = cart ]_vars

\* an admin-override of the shortfall menu has logged the admin in and has
\* not yet restored the original principal (line 485 is still to come)
OverridePending ==
    \E i \in 1..Len(stack) :
        stack[i].k = "rm" /\ stack[i].ctx = "short_override"

\* C12  Admin override: a step of the shortfall menu taken by a principal
\* without the admin role ends with that same principal active (also when
\* admin_login fails), and between the admin login of an override and the
\* restoration of the original principal the program performs no operation
\* besides the one removal: it waits at no prompt with the override pending.
C12_OverrideIsOneRemoval ==
    /\ [](~OverridePending)
    /\ [][ ( /\ At("short")
             /\ current_user # NoUser
             /\ ~has_permission(current_user, "admin") )
           => current_user' = current_user ]_vars

\* C13  Privilege gate: whenever Cart.remove_item has been called, the
\* principal active at the call had the admin role; and a step that lowers
\* the quantity a cart holds of some product is such a removal, or the end
\* of the transaction (a confirmed cancellation, a paid checkout).
C13_PrivilegeGate ==
    /\ [](RemoveCalled =>
            last.by \in Users /\ has_permission(last.by, "admin"))
    /\ [][ (\E p \in Products : QtyOf(cart', p) < QtyOf(cart, p))
           => \/ last'.op = "remove_item" /\ last'.ok
              \/ last'.op = "cancel" /\ last'.ok
              \/ last'.op = "tender" /\ last'.ok ]_vars

\* a cashier's sale has just lost a line through the admin override, and
\* the cashier is the active principal again
C13_Witness ==
    /\ RemoveCalled /\ last.ok
    /\ last.by = "admin"
    /\ current_user = "dburton"
    /\ ~HasLine(cart, last.pid)
    /\ cart # << >>

\* ------------------------------------------------------------------------
\* The cart driven directly, on product 101 (Rice, stock 25): a sequence of
\* Cart.add_item / Cart.remove_item calls with quantities of ScenarioQtys.
\* The frame counts the calls in n; its ctx is "on" while the calls made so
\* far are the first calls of add_item(101, 20), add_item(101, 10),
\* remove_item(101, 20).
\* ------------------------------------------------------------------------
ScenarioProduct == 101

ScenarioStock == (ScenarioProduct :> 25)

ScenarioQtys == {5, 10, 15, 20, 25, 30}

ScenarioTrace ==
    << [op |-> "add_item", qty |-> 20],
       [op |-> "add_item", qty |-> 10],
       [op |-> "remove_item", qty |-> 20] >>

ScenarioFrame(ctx, n) == Frame("scenario", ctx, NoUser, n, NoPricing)

InitScenario ==
    /\ stock = ScenarioStock
    /\ cart = << >>
    /\ current_user = "admin"
    /\ stack = << ScenarioFrame("on", 0) >>
    /\ startStock = ScenarioStock
    /\ committed = [p \in {ScenarioProduct} |-> 0]
    /\ last = Did("init")

\* the frame after one more call
ScenarioAfter(op, q) ==
    LET n == Top.n + 1
    IN  ScenarioFrame(IF /\ Top.ctx = "on"
                         /\ n <= Len(ScenarioTrace)
                         /\ ScenarioTrace[n] = [op |-> op, qty |-> q]
                      THEN "on" ELSE "off",
                      n)

ScenarioAdd ==
    /\ At("scenario")
    /\ Top.n < MaxScenarioSteps
    /\ \E q \in ScenarioQtys :
         LET r == add_item(stock, cart, ScenarioProduct, q)
         IN  Step(r.stock, r.items, current_user,
                  << ScenarioAfter("add_item", q) >>, startStock,
                  Last("add_item", ScenarioProduct, q, r.ok, "none",
                       Signals(r.out)))

ScenarioRemove ==
    /\ At("scenario")
    /\ Top.n < MaxScenarioSteps
    /\ \E q \in ScenarioQtys :
         LET r == remove_item(stock, cart, ScenarioProduct, q)
         IN  Step(r.stock, r.items, current_user,
                  << ScenarioAfter("remove_item", q) >>, startStock,
                  [Last("remove_item", ScenarioProduct, q, r.ok, "none",
                        Signals(r.out))
                   EXCEPT !.by = current_user])

NextScenario == ScenarioAdd \/ ScenarioRemove

SpecScenario == InitScenario /\ [][NextScenario]_vars

\* the first n calls of the scenario have been made, and nothing else
OnScenario(n) == At("scenario") /\ Top.ctx = "on" /\ Top.n = n

\* C14  Scenario of product 101 (stock 25, empty cart): add_item(101, 20)
\* succeeds, leaves stock 5 and prints the low-stock alert; add_item(101, 10)
\* then fails for insufficient stock and leaves stock 5 and the line at 20;
\* remove_item(101, 20) then succeeds and leaves stock 25 and an empty cart.
C14_ScenarioTrace ==
    /\ OnScenario(1) =>
          /\ last.ok
          /\ stock[ScenarioProduct] = 5
          /\ cart = << [pid |-> ScenarioProduct, qty |-> 20] >>
          /\ Emitted("low_stock")
    /\ OnScenario(2) =>
          /\ ~last.ok
          /\ Emitted("insufficient")
          /\ stock[ScenarioProduct] = 5
          /\ cart = << [pid |-> ScenarioProduct, qty |-> 20] >>
    /\ OnScenario(3) =>
          /\ last.ok
          /\ stock[ScenarioProduct] = 25
          /\ cart = << >>

\* the three calls of the scenario have been made in order
C14_Witness == OnScenario(3) /\ RemoveCalled /\ last.qty = 20

\* a step in which a Cart() replaces self.cart: new_sale entered from the
\* main menu or from remove_item_fr_cart, and the run loop (re)started
CartReplaced ==
    \/ last'.op = "new_sale"
    \/ Nest(stack') > Nest(stack)
    \/ last'.op = "login_exhausted" /\ stack'[Len(stack')].k = "main"
    \/ last'.op = "login" /\ last'.ok /\ stack = << Top >>

\* C15  No leak between transactions: whenever a new Cart() replaces
\* self.cart (new_sale from the main menu, new_sale called by
\* remove_item_fr_cart, the run loop starting over) the new transaction
\* starts without lines, and the replaced cart had none: the stock is then
\* what it was when the replaced cart was opened or last committed, so it
\* holds no reserved unit.
C15_NoCartLeak ==
    [][ CartReplaced
        => /\ cart' = << >>
           /\ stock' = startStock
           /\ Nest(stack') = Nest(stack) => cart = << >> ]_vars

\* a removal made at the shortfall menu has just emptied the cart and
\* opened a transaction inside the waiting checkout
C15_Witness ==
    /\ At("sale") /\ Nest(stack) > 0
    /\ RemoveCalled /\ last.ok
    /\ cart = << >>
    /\ \E i \in 1..Len(stack) : stack[i].k = "short"

\* subtotal + tax - discount of the lines the cart holds now
TotalOfCart ==
    LET S == SumOver([p \in Products |-> Price[p] * QtyOf(cart, p)], Products)
    IN  (S + (S * TaxPercent) \div 100)
        - (IF S >= DiscountThreshold THEN (S * DiscountPercent) \div 100
           ELSE 0)

\* C16  No stale total: at the payment prompt and at the shortfall menu of
\* every pass of the payment loop (first entry, more funds, after a removal,
\* after a malformed amount) the total due is subtotal + tax - discount of
\* the cart's lines of that moment; a tendered amount goes to the
\* shortfall menu exactly when it is below that total, and otherwise the
\* change is computed from it.
C16_NoStaleTotal ==
    /\ []((At("pay") \/ At("short")) => Top.due.total = TotalOfCart)
    /\ [][ last'.op = "tender"
           => /\ last'.pay.total = TotalOfCart
              /\ stack'[Len(stack')].k = "short"
                   <=> last'.pay.tendered < TotalOfCart
              /\ last'.pay.tendered >= TotalOfCart =>
                   last'.pay.change = last'.pay.tendered - TotalOfCart ]_vars

\* the payment prompt is shown again after a removal at the shortfall menu
\* that left lines in the cart
C16_Witness ==
    /\ At("pay")
    /\ RemoveCalled /\ last.ok
    /\ cart # << >>
    /\ Top.due.total > 0

HasLowStock(out) == \E i \in 1..Len(out) : out[i].sig = "low_stock"

\* C17  Low-stock check: in every reachable state, for every product and
\* quantity, a successful add_item or remove_item prints the low-stock alert
\* if and only if the product's stock after the call is <= 5, and a failing
\* call prints none; so do the calls the program makes.
C17_LowStockSignal ==
    /\ \A p \in Products, q \in (0 - MaxNeg)..MaxQty :
          LET r == add_item(stock, cart, p, q)
          IN  IF r.ok
              THEN HasLowStock(r.out) <=> r.stock[p] <= LowStockThreshold
              ELSE ~HasLowStock(r.out)
    /\ \A p \in Products, q \in RemoveQtyInputs :
          LET r == remove_item(stock, cart, p, q)
          IN  IF r.ok
              THEN HasLowStock(r.out) <=> r.stock[p] <= LowStockThreshold
              ELSE ~HasLowStock(r.out)
    /\ (AddCalled \/ RemoveCalled) =>
          IF last.ok
          THEN Emitted("low_stock") <=> stock[last.pid] <= LowStockThreshold
          ELSE ~Emitted("low_stock")

\* an addition has just brought a stock from above the threshold to
\* exactly 5, with the alert
C17_Witness ==
    /\ AddCalled /\ last.ok
    /\ stock[last.pid] = LowStockThreshold
    /\ Emitted("low_stock")

LowStockEvents(out) == { i \in 1..Len(out) : out[i].sig = "low_stock" }

\* C18  No intermediate state observed: in every reachable state, for
\* every product and quantity, each low-stock alert a successful add_item
\* or remove_item prints is printed when stock + line quantity is what it
\* was before the call, and reports the stock the call leaves.
C18_NoIntermediateState ==
    /\ \A p \in Products, q \in 1..MaxQty :
          LET r == add_item(stock, cart, p, q)
          IN  r.ok => \A i \in LowStockEvents(r.out) :
                        /\ r.out[i].val + r.out[i].lineqty
                             = stock[p] + QtyOf(cart, p)
                        /\ r.out[i].val = r.stock[p]
    /\ \A p \in Products, q \in RemoveQtyInputs :
          LET r == remove_item(stock, cart, p, q)
          IN  r.ok => \A i \in LowStockEvents(r.out) :
                        /\ r.out[i].val + r.out[i].lineqty
                             = stock[p] + QtyOf(cart, p)
                        /\ r.out[i].val = r.stock[p]

\* C19  Insufficient stock: in every reachable state, for every product
\* and positive quantity, when add_item fails for insufficient stock (with
\* or without a line of the product in the cart) the quantity it reports as
\* available is the product's stock at the call, and is not negative.
C19_ReportsAvailableStock ==
    \A p \in Products, q \in 1..MaxQty :
        LET r == add_item(stock, cart, p, q)
        IN  \A i \in 1..Len(r.out) :
              r.out[i].sig = "insufficient" =>
                 /\ ~r.ok
                 /\ r.out[i].val = stock[p]
                 /\ r.out[i].val >= 0

\* C20  Pricing across call sites: for every cart and tax rate, the cart
\* view (Cart.display_receipt), the payment summary of checkout and
\* recalculate_total compute the same subtotal, tax, discount and total, and
\* each total is subtotal + tax less the discount once: the subtotal is the
\* sum over the lines, the tax is the rate applied to the whole subtotal.
C20_CallSitesAgree ==
    last.op = "call_sites" =>
        LET S == SumOver([p \in Products |-> Price[p] * QtyOf(cart, p)],
                         Products)
            D == IF S >= DiscountThreshold THEN (S * DiscountPercent) \div 100
                 ELSE 0
        IN  /\ last.view = last.summary
            /\ last.summary = last.recalc
            /\ last.view.subtotal = S
            /\ last.view.tax * 100 = S * last.tax_rate
            /\ last.view.discount = D
            /\ last.view.total = (S + last.view.tax) - D

\* the three call sites have priced a discounted cart at a rate other than
\* the default
C20_Witness ==
    /\ last.op = "call_sites"
    /\ last.tax_rate = 15
    /\ last.view.discount > 0
    /\ last.view.total = last.recalc.total

\* C21  Malformed payment: an amount float() refuses leaves cart, stock and
\* principal as they were, neither commits nor cancels, and the checkout
\* asks for the payment again, for the same total.
C21_MalformedPaymentRecovers ==
    [][ last'.op = "tender_invalid"
        => /\ cart' = cart
           /\ stock' = stock
           /\ startStock' = startStock
           /\ current_user' = current_user
           /\ last'.ret = "none"
           /\ Len(stack') = Len(stack)
           /\ Pop(stack') = Pop(stack)
           /\ stack'[Len(stack')].k = "pay"
           /\ stack'[Len(stack')].due = Top.due
           /\ last'.price.total = Top.due.total ]_vars

\* a malformed amount has just been typed for a cart with lines, and the
\* payment prompt is up again
C21_Witness ==
    /\ last.op = "tender_invalid"
    /\ At("pay")
    /\ cart # << >>
    /\ Top.due.total > 0

\* C22  No payment for an empty cart: whenever checkout asks for a payment
\* amount the cart holds at least one line, and so it does when a payment
\* is accepted and the receipt printed.
C22_NoPaymentOnEmptyCart ==
    /\ [](At("pay") => ~is_empty(cart))
    /\ [][ (last'.op = "tender" /\ last'.ret = "True")
           => ~is_empty(cart) ]_vars

\* C23  Session-wide stock accounting: in every reachable state, for every
\* product, the seed stock is the current stock plus the quantity the
\* active cart holds of it plus its units on all receipts printed so far.
C23_SessionStockAccounting ==
    \A p \in Products :
        InitStock[p] = stock[p] + QtyOf(cart, p) + committed[p]

\* after a committed sale, a later transaction holds lines of its own
C23_Witness ==
    /\ \E p \in Products : committed[p] > 0
    /\ cart # << >>
    /\ At("sale")

\* C24  Authenticated principal: whenever the program waits at the main
\* menu, at the transaction menu, at the payment prompt or at the shortfall
\* menu, current_user is a logged-in user, and no run ends in an exception
\* raised for lack of one.
C24_AuthenticatedPrincipal ==
    /\ (At("main") \/ At("sale") \/ At("pay") \/ At("short"))
          => current_user \in Users
    /\ ~At("crash")

\* ------------------------------------------------------------------------
\* The cart driven directly over three products of the catalogue, so that
\* a line can leave a cart in which two others stay
\* ------------------------------------------------------------------------
LineProducts == {40, 45, 101}

LineStock == (40 :> 8) @@ (45 :> 5) @@ (101 :> 25)

\* quantities passed to Cart.add_item and Cart.remove_item
LineQtys == {0 - 1, 1, 2}

LineFrame(n) == Frame("lines", "", NoUser, n, NoPricing)

InitLines ==
    /\ stock = LineStock
    /\ cart = << >>
    /\ current_user = "admin"
    /\ stack = << LineFrame(0) >>
    /\ startStock = LineStock
    /\ committed = [p \in LineProducts |-> 0]
    /\ last = Did("init")

LinesAdd ==
    /\ At("lines")
    /\ Top.n < MaxLineSteps
    /\ \E p \in LineProducts, q \in LineQtys :
         LET r == add_item(stock, cart, p, q)
         IN  Step(r.stock, r.items, current_user, << LineFrame(Top.n + 1) >>,
                  startStock,
                  Last("add_item", p, q, r.ok, "none", Signals(r.out)))

LinesRemove ==
    /\ At("lines")
    /\ Top.n < MaxLineSteps
    /\ \E p \in LineProducts, q \in LineQtys :
         LET r == remove_item(stock, cart, p, q)
         IN  Step(r.stock, r.items, current_user, << LineFrame(Top.n + 1) >>,
                  startStock,
                  [Last("remove_item", p, q, r.ok, "none", Signals(r.out))
                   EXCEPT !.by = current_user])

NextLines == LinesAdd \/ LinesRemove

SpecLines == InitLines /\ [][NextLines]_vars

\* the product ids of the lines, in the order of the lines
Pids(items) == [i \in 1..Len(items) |-> items[i].pid]

RECURSIVE Without(_, _)
Without(ids, pid) ==
    IF ids = << >> THEN << >>
    ELSE IF Head(ids) = pid THEN Without(Tail(ids), pid)
    ELSE << Head(ids) >> \o Without(Tail(ids), pid)

\* C25  One line per product, in insertion order: in every reachable state
\* no two lines have the same product id; a successful add_item on a
\* product with a line keeps the sequence of ids and changes that line
\* only, and on a product without a line appends one line at the end; a
\* successful remove_item keeps the other lines and their order, and either
\* keeps the product's line in its place or takes it out.
C25_OneLinePerProductInOrder ==
    /\ \A i, j \in 1..Len(cart) : cart[i].pid = cart[j].pid => i = j
    /\ \A p \in DOMAIN stock, q \in LineQtys :
          LET r == add_item(stock, cart, p, q)
          IN  r.ok =>
                IF \E i \in 1..Len(cart) : cart[i].pid = p
                THEN /\ Pids(r.items) = Pids(cart)
                     /\ \A i \in 1..Len(cart) :
                          cart[i].pid # p => r.items[i] = cart[i]
                ELSE r.items = Append(cart, [pid |-> p, qty |-> q])
    /\ \A p \in DOMAIN stock, q \in LineQtys :
          LET r == remove_item(stock, cart, p, q)
          IN  r.ok =>
                /\ \/ Pids(r.items) = Pids(cart)
                   \/ Pids(r.items) = Without(Pids(cart), p)
                /\ Without(r.items, [pid |-> p, qty |-> QtyOf(r.items, p)])
                     = Without(cart, [pid |-> p, qty |-> QtyOf(cart, p)])

\* a remove_item has just taken one line out of a cart of three
C25_Witness ==
    /\ RemoveCalled /\ last.ok
    /\ Len(cart) = 2
    /\ \A i \in 1..Len(cart) : cart[i].pid # last.pid

====
